---------------------------- MODULE Spec2Model ----------------------------
(***************************************************************************)
(* A model of bun's SelectQuery (query_select.go): the builder's           *)
(* configuration methods, the clause renderer appendQuery, and the         *)
(* executing methods Rows / Exec / Scan / Count / ScanAndCount.            *)
(*                                                                         *)
(* SQL text is modelled as a sequence of tokens [c |-> clause, t |-> text];*)
(* the bytes appended by the renderer are the concatenation of the t's.    *)
(***************************************************************************)
EXTENDS Integers, Sequences, FiniteSets, TLC

VARIABLES
    q,        \* the *SelectQuery under construction
    calls,    \* number of configuration calls made on q
    lastCall, \* name of the most recent configuration call
    op,       \* the executing method in progress ("none" before it starts)
    pc,       \* position of each thread: main, scan goroutine, count goroutine
    loc,      \* locals of the executing threads
    log       \* hook invocations and statements handed to the driver, in order

vars == <<q, calls, lastCall, op, pc, loc, log>>

\* Bounds of the exploration.
MaxCalls == 3
MaxExecCalls == 3
MaxDepth == 2

-----------------------------------------------------------------------------
(* Errors.  "nil" is Go's nil error.                                       *)

ErrNil == "nil"
errNilModel == "bun: Model(nil)"
errNoJoins == "bun: query has no joins"
errNoRelation == "does not have relation"
errOverflow == "stack overflow"

\* baseQuery.setErr keeps the first error.
setErr(b, err) == IF b.err = ErrNil THEN [b EXCEPT !.err = err] ELSE b

-----------------------------------------------------------------------------
(* Builder state.                                                          *)

\* A Go slice for which nil and empty differ (distinctOn).
NilSlice == [isNil |-> TRUE, items |-> <<>>]
EmptySlice == [isNil |-> FALSE, items |-> <<>>]

NewSelectQuery ==
    [ err        |-> ErrNil,
      model      |-> "none",    \* tableModel / table: "none" is nil
      rels       |-> <<>>,      \* tableModel's joins, in declaration order
      with       |-> <<>>,
      distinctOn |-> NilSlice,
      tables     |-> <<>>,
      columns    |-> <<>>,
      where      |-> <<>>,
      joins      |-> <<>>,
      group      |-> <<>>,
      having     |-> <<>>,
      order      |-> <<>>,
      limit      |-> 0,
      offset     |-> 0,
      selFor     |-> "",
      union      |-> <<>> ]

\* Everything a configuration call accumulates, i.e. all but the error slot.
Clauses(b) == [f \in (DOMAIN b) \ {"err"} |-> b[f]]

\* A Go int argument n = hi * 2^32 + lo with lo in the int32 range;
\* int32(n) keeps the low 32 bits.
GoInt(hi, lo) == [hi |-> hi, lo |-> lo]
ToInt32(n) == n.lo

Model(b, kind) == [b EXCEPT !.model = kind, !.rels = <<>>]

With(b, name) == [b EXCEPT !.with = Append(@, name)]

Distinct(b) == [b EXCEPT !.distinctOn = EmptySlice]

DistinctOn(b, query) ==
    [b EXCEPT !.distinctOn = [isNil |-> FALSE, items |-> Append(@.items, query)]]

Table(b, table) == [b EXCEPT !.tables = Append(@, table)]

Column(b, column) == [b EXCEPT !.columns = Append(@, column)]

\* A where entry: a condition with its separator, or a group of entries.
Cond(query, sep) == [sep |-> sep, query |-> query, group |-> <<>>]

Where(b, query) == [b EXCEPT !.where = Append(@, Cond(query, " AND "))]

WhereOr(b, query) == [b EXCEPT !.where = Append(@, Cond(query, " OR "))]

\* whereBaseQuery.addWhereGroup: an empty group adds nothing.
addWhereGroup(b, sep, where) ==
    IF Len(where) = 0 THEN b
    ELSE [b EXCEPT !.where = Append(@, [sep |-> sep, query |-> "", group |-> where])]

\* The callback given to WhereGroup is the sequence of calls it makes on the
\* builder it is handed, which it then returns.
CallWhere(query) == [call |-> "Where", query |-> query, sep |-> "", fn |-> <<>>]
CallWhereOr(query) == [call |-> "WhereOr", query |-> query, sep |-> "", fn |-> <<>>]
CallWhereGroup(sep, fn) == [call |-> "WhereGroup", query |-> "", sep |-> sep, fn |-> fn]

RECURSIVE WhereGroup(_, _, _)

\* q = fn(q), line 138
RECURSIVE runCallback(_, _)
runCallback(b, fn) ==
    IF Len(fn) = 0 THEN b
    ELSE LET c == Head(fn)
             next == CASE c.call = "Where" -> Where(b, c.query)
                       [] c.call = "WhereOr" -> WhereOr(b, c.query)
                       [] c.call = "WhereGroup" -> WhereGroup(b, c.sep, c.fn)
         IN  runCallback(next, Tail(fn))

\* lines 135-136: the builder the callback is handed
callbackStart(b) == [b EXCEPT !.where = <<>>]

\* Mutant of WhereGroup: the callback is handed the builder with the
\* parent's conditions still in place.
WhereGroup_shared(b, sep, fn) ==
    LET saved == b.where
        inner == runCallback(b, fn)
        where == inner.where
        after == [inner EXCEPT !.where = saved]
    IN  addWhereGroup(after, sep, where)

WhereGroup(b, sep, fn) ==
    LET saved == b.where
        inner == runCallback(callbackStart(b), fn)
        where == inner.where
        after == [inner EXCEPT !.where = saved]
    IN  addWhereGroup(after, sep, where)

Group(b, column) == [b EXCEPT !.group = Append(@, column)]

Having(b, having) == [b EXCEPT !.having = Append(@, having)]

Order(b, order) ==
    IF order = "" THEN b ELSE [b EXCEPT !.order = Append(@, order)]

Limit(b, n) == [b EXCEPT !.limit = ToInt32(n)]

Offset(b, n) == [b EXCEPT !.offset = ToInt32(n)]

For(b, s) == [b EXCEPT !.selFor = s]

\* A union member: another builder, or this builder itself (other == q).
Other(b) == [self |-> FALSE, q |-> b]
Self == [self |-> TRUE, q |-> NewSelectQuery]

addUnion(b, expr, other) ==
    [b EXCEPT !.union = Append(@, [expr |-> expr, query |-> other])]

Join(b, join) == [b EXCEPT !.joins = Append(@, [join |-> join, on |-> <<>>])]

\* Mutant of joinOn: the condition lands on the first join, not the last.
joinOn_firstJoin(b, cond, sep) ==
    IF Len(b.joins) = 0
    THEN [b EXCEPT !.err = errNoJoins]
    ELSE [b EXCEPT !.joins[1].on = Append(@, [sep |-> sep, query |-> cond])]

\* Mutant of joinOn: a successful call resets the error slot.
joinOn_resetErr(b, cond, sep) ==
    IF Len(b.joins) = 0
    THEN [b EXCEPT !.err = errNoJoins]
    ELSE [b EXCEPT !.joins[Len(b.joins)].on = Append(@, [sep |-> sep, query |-> cond]),
                   !.err = ErrNil]

\* joinOn assigns q.err directly; it does not go through setErr.
joinOn(b, cond, sep) ==
    IF Len(b.joins) = 0
    THEN [b EXCEPT !.err = errNoJoins]
    ELSE [b EXCEPT !.joins[Len(b.joins)].on = Append(@, [sep |-> sep, query |-> cond])]

JoinOn(b, cond) == joinOn(b, cond, " AND ")

JoinOnOr(b, cond) == joinOn(b, cond, " OR ")

-----------------------------------------------------------------------------
(* Relations.  The bound model's metadata declares its relations; a dotted  *)
(* name is a relation of a relation.                                       *)

RelationNames ==
    {"Author", "Author.Profile", "Author.Books", "Comments", "Comments.User", "Tags"}

RelationType(name) ==
    CASE name = "Author" -> "belongs-to"
      [] name = "Author.Profile" -> "has-one"
      [] name = "Author.Books" -> "has-many"
      [] name = "Comments" -> "has-many"
      [] name = "Comments.User" -> "belongs-to"
      [] name = "Tags" -> "many-to-many"

RelationParent(name) ==
    CASE name = "Author.Profile" -> "Author"
      [] name = "Author.Books" -> "Author"
      [] name = "Comments.User" -> "Comments"
      [] OTHER -> ""

HasJoin(rels, name) == \E i \in 1..Len(rels) : rels[i].name = name

NewJoin(name, apply) ==
    [name |-> name, parent |-> RelationParent(name),
     type |-> RelationType(name), apply |-> apply]

\* tableModel.Join: finds or adds the join of every segment of the path; the
\* apply function belongs to the last one.  An unknown name yields no join.
RECURSIVE tableModelJoin(_, _, _)
tableModelJoin(rels, name, apply) ==
    LET parent == RelationParent(name)
        above  == IF parent = "" THEN rels ELSE tableModelJoin(rels, parent, FALSE)
    IN  IF HasJoin(above, name)
        THEN [i \in 1..Len(above) |->
                 IF above[i].name = name
                 THEN [above[i] EXCEPT !.apply = @ \/ apply]
                 ELSE above[i]]
        ELSE Append(above, NewJoin(name, apply))

\* Mutant of Relation: a name the metadata does not know is passed over.
Relation_silent(b, name, apply) ==
    IF b.model = "none"
    THEN setErr(b, errNilModel)
    ELSE IF name \notin RelationNames
         THEN b
         ELSE [b EXCEPT !.rels = tableModelJoin(@, name, apply)]

Relation(b, name, apply) ==
    IF b.model = "none"
    THEN setErr(b, errNilModel)
    ELSE IF name \notin RelationNames
         THEN setErr(b, errNoRelation)
         ELSE [b EXCEPT !.rels = tableModelJoin(@, name, apply)]

\* model.GetJoins() of the model (parent = "") or of a join's model.
GetJoins(rels, parent) == SelectSeq(rels, LAMBDA j : j.parent = parent)

IsToOne(j) == j.type \in {"has-one", "belongs-to"}

\* The joins fn is applied to, in the order of the calls.
RECURSIVE _forEachHasOneJoin(_, _)
_forEachHasOneJoin(rels, joins) ==
    IF Len(joins) = 0 THEN <<>>
    ELSE LET j == Head(joins)
         IN  (IF IsToOne(j)
              THEN <<j>> \o _forEachHasOneJoin(rels, GetJoins(rels, j.name))
              ELSE <<>>)
             \o _forEachHasOneJoin(rels, Tail(joins))

forEachHasOneJoin(b) ==
    IF b.model = "none" THEN <<>>
    ELSE _forEachHasOneJoin(b.rels, GetJoins(b.rels, ""))

\* Mutant of selectJoins: the joins of a to-one join's model are not visited.
RECURSIVE selectJoins_flat(_, _)
selectJoins_flat(rels, joins) ==
    IF Len(joins) = 0 THEN <<>>
    ELSE LET j == Head(joins)
         IN  (IF IsToOne(j) THEN <<>> ELSE <<j>>)
             \o selectJoins_flat(rels, Tail(joins))

\* The joins selectJoins issues a follow-up query for, in order.
RECURSIVE selectJoins(_, _)
selectJoins(rels, joins) ==
    IF Len(joins) = 0 THEN <<>>
    ELSE LET j == Head(joins)
         IN  (IF IsToOne(j)
              THEN selectJoins(rels, GetJoins(rels, j.name))
              ELSE <<j>>)
             \o selectJoins(rels, Tail(joins))

-----------------------------------------------------------------------------
(* Rendering.  A token is one clause's text, tagged with the clause.       *)

Tok(c, t) == [c |-> c, t |-> t]

\* The bytes of a token sequence.
RECURSIVE Text(_)
Text(toks) == IF Len(toks) = 0 THEN "" ELSE Head(toks).t \o Text(Tail(toks))

\* strs[1] sep strs[2] sep ... (the "if i > 0 { append sep }" loops).
RECURSIVE Sep(_, _)
Sep(strs, sep) ==
    IF Len(strs) = 0 THEN ""
    ELSE IF Len(strs) = 1 THEN strs[1]
    ELSE strs[1] \o sep \o Sep(Tail(strs), sep)

\* strconv.AppendInt(b, n, 10)
AppendInt(n) == ToString(n)

\* The fields of the bound model's table and of the joined tables.
ModelAlias == "m"
ModelFields == <<"id", "name">>
JoinFields == <<"id">>

\* baseQuery.appendWith
appendWith(b) ==
    IF Len(b.with) = 0 THEN <<>>
    ELSE <<Tok("WITH", "WITH " \o Sep([i \in 1..Len(b.with) |-> b.with[i] \o " AS (...)"], ", ") \o " ")>>

\* lines 385-399
appendDistinct(b) ==
    IF Len(b.distinctOn.items) > 0
    THEN <<Tok("DISTINCT", "DISTINCT ON (" \o Sep(b.distinctOn.items, ", ") \o ") ")>>
    ELSE IF ~b.distinctOn.isNil
         THEN <<Tok("DISTINCT", "DISTINCT ")>>
         ELSE <<>>

\* join.applyQuery runs the relation's apply function on the query with the
\* query's columns set aside, and keeps the columns it added on the join.
applyQueryColumns(j) == IF j.apply THEN <<"title">> ELSE <<>>

appendHasOneColumns(b, j) ==
    LET columns == applyQueryColumns(j)
    IN  IF Len(columns) > 0
        THEN Sep([i \in 1..Len(columns) |->
                    j.name \o "." \o columns[i] \o " AS " \o j.name \o "__" \o columns[i]], ", ")
        ELSE Sep([i \in 1..Len(JoinFields) |->
                    j.name \o "." \o JoinFields[i] \o " AS " \o j.name \o "__" \o JoinFields[i]], ", ")

appendColumns(b) ==
    LET own == IF Len(b.columns) > 0
               THEN <<Sep(b.columns, ", ")>>
               ELSE IF b.model # "none"
                    THEN <<Sep([i \in 1..Len(ModelFields) |->
                                  ModelAlias \o "." \o ModelFields[i]], ", ")>>
                    ELSE <<"*">>
        hasOne == forEachHasOneJoin(b)
    IN  Sep(own \o [i \in 1..Len(hasOne) |-> appendHasOneColumns(b, hasOne[i])], ", ")

\* baseQuery.hasTables, appendTables / appendTablesWithAlias
hasTables(b) == b.model # "none" \/ Len(b.tables) > 0

appendTables(b) ==
    LET model == IF b.model # "none" THEN <<"models AS " \o ModelAlias>> ELSE <<>>
    IN  <<Tok("FROM", " FROM " \o Sep(model \o b.tables, ", "))>>

\* join.appendHasOneJoin
appendHasOneJoin(j) == Tok("HASONE", " LEFT JOIN " \o j.name \o " ON (...)")

\* joinQuery.AppendQuery
joinQueryAppendQuery(j) ==
    LET on == IF Len(j.on) = 0 THEN ""
              ELSE " ON (" \o j.on[1].query \o ")"
                   \o Sep([i \in 1..(Len(j.on) - 1) |->
                              j.on[i + 1].sep \o "(" \o j.on[i + 1].query \o ")"], "")
    IN  Tok("JOIN", " " \o j.join \o on)

\* whereBaseQuery.appendWhere
RECURSIVE whereText(_)
whereText(where) ==
    LET one(e) == IF Len(e.group) > 0
                  THEN "(" \o whereText(e.group) \o ")"
                  ELSE "(" \o e.query \o ")"
    IN  IF Len(where) = 0 THEN ""
        ELSE one(where[1])
             \o Sep([i \in 1..(Len(where) - 1) |->
                        where[i + 1].sep \o one(where[i + 1])], "")

appendWhere(b) ==
    IF Len(b.where) = 0 THEN <<>>
    ELSE <<Tok("WHERE", " WHERE " \o whereText(b.where))>>

\* lines 437-448
appendGroup(b) ==
    IF Len(b.group) > 0
    THEN <<Tok("GROUP BY", " GROUP BY " \o Sep(b.group, ", "))>>
    ELSE <<>>

\* lines 450-463
appendHaving(b) ==
    IF Len(b.having) > 0
    THEN <<Tok("HAVING", " HAVING "
               \o Sep([i \in 1..Len(b.having) |-> "(" \o b.having[i] \o ")"], " AND "))>>
    ELSE <<>>

appendOrder(b) ==
    IF Len(b.order) > 0
    THEN <<Tok("ORDER BY", " ORDER BY " \o Sep(b.order, ", "))>>
    ELSE <<>>

\* lines 471-474
appendLimit(b) ==
    IF b.limit # 0 THEN <<Tok("LIMIT", " LIMIT " \o AppendInt(b.limit))>> ELSE <<>>

\* lines 476-479
appendOffset(b) ==
    IF b.offset # 0 THEN <<Tok("OFFSET", " OFFSET " \o AppendInt(b.offset))>> ELSE <<>>

\* lines 481-487
appendFor(b) ==
    IF b.selFor # "" THEN <<Tok("FOR", " FOR " \o b.selFor)>> ELSE <<>>

\* Mutant of appendRowClauses: LIMIT and OFFSET are written before ORDER BY.
appendRowClauses_limitFirst(b, count) ==
    IF ~count
    THEN appendLimit(b) \o appendOffset(b) \o appendOrder(b) \o appendFor(b)
    ELSE <<>>

\* Mutant of appendRowClauses: the count flag is not consulted.
appendRowClauses_always(b, count) ==
    appendOrder(b) \o appendLimit(b) \o appendOffset(b) \o appendFor(b)

\* lines 465-488: ORDER BY, LIMIT, OFFSET and FOR, skipped when counting
appendRowClauses(b, count) ==
    IF ~count
    THEN appendOrder(b) \o appendLimit(b) \o appendOffset(b) \o appendFor(b)
    ELSE <<>>

\* Mutant of cteCount: len(q.distinctOn) > 0 in place of q.distinctOn != nil.
cteCount_lenDistinct(b, count) ==
    count /\ (Len(b.group) > 0 \/ Len(b.distinctOn.items) > 0)

\* line 369
cteCount(b, count) == count /\ (Len(b.group) > 0 \/ ~b.distinctOn.isNil)

\* lines 401-408
appendSelectList(b, count) ==
    IF count /\ ~cteCount(b, count)
    THEN <<Tok("COLUMNS", "count(*)")>>
    ELSE <<Tok("COLUMNS", appendColumns(b))>>

\* lines 378-488: the statement itself, from the CTEs to the locking clause
appendStatement(b, count) ==
    appendWith(b)
    \o <<Tok("SELECT", "SELECT ")>>
    \o appendDistinct(b)
    \o appendSelectList(b, count)
    \o (IF hasTables(b) THEN appendTables(b) ELSE <<>>)
    \o [i \in 1..Len(forEachHasOneJoin(b)) |-> appendHasOneJoin(forEachHasOneJoin(b)[i])]
    \o [i \in 1..Len(b.joins) |-> joinQueryAppendQuery(b.joins[i])]
    \o appendWhere(b)
    \o appendGroup(b)
    \o appendHaving(b)
    \o appendRowClauses(b, count)

\* The result of a render: the error, and the bytes when the error is nil.
Rendered(toks) == [err |-> ErrNil, b |-> toks]
Failed(err) == [err |-> err, b |-> <<>>]

\* SelectQuery.appendQuery.  A member that is the query itself is rendered
\* by a nested call on the same query; depth is the number of nested calls
\* the stack still has room for.
RECURSIVE appendQueryAt(_, _, _)
RECURSIVE appendUnion(_, _, _, _)

\* Mutant of appendUnion: a member's error is dropped and the loop goes on.
appendUnion_ignoreErr(b, union, acc, depth) ==
    IF Len(union) = 0 THEN Rendered(acc)
    ELSE LET u == Head(union)
             r == appendQueryAt(IF u.query.self THEN b ELSE u.query.q, FALSE, depth - 1)
         IN  appendUnion(b, Tail(union),
                         Append(acc, Tok("SETOP", u.expr \o "(" \o Text(r.b) \o ")")),
                         depth)

\* lines 490-502
appendUnion(b, union, acc, depth) ==
    IF Len(union) = 0 THEN Rendered(acc)
    ELSE LET u == Head(union)
             r == appendQueryAt(IF u.query.self THEN b ELSE u.query.q, FALSE, depth - 1)
         IN  IF r.err # ErrNil THEN Failed(r.err)
             ELSE appendUnion(b, Tail(union),
                              Append(acc, Tok("SETOP", u.expr \o "(" \o Text(r.b) \o ")")),
                              depth)

\* Mutant of appendQueryAt: the stored error is not looked at.
appendQueryAt_noErrCheck(b, count, depth) ==
    IF depth = 0 THEN Failed(errOverflow)
    ELSE Rendered(appendStatement(b, count))

appendQueryAt(b, count, depth) ==
    IF depth = 0 THEN Failed(errOverflow)
    ELSE IF b.err # ErrNil THEN Failed(b.err)
    ELSE LET open  == (IF cteCount(b, count)
                       THEN <<Tok("COUNT(", "WITH _count_wrapper AS (")>> ELSE <<>>)
                      \o (IF Len(b.union) > 0 THEN <<Tok("(", "(")>> ELSE <<>>)
             body  == open \o appendStatement(b, count)
             tail  == IF Len(b.union) > 0
                      THEN appendUnion(b, b.union, Append(body, Tok(")", ")")), depth)
                      ELSE Rendered(body)
         IN  IF tail.err # ErrNil THEN tail
             ELSE IF cteCount(b, count)
                  THEN Rendered(Append(tail.b, Tok(")COUNT", ") SELECT count(*) FROM _count_wrapper")))
                  ELSE tail

appendQuery(b, count) == appendQueryAt(b, count, MaxDepth)

\* SelectQuery.AppendQuery and countQuery.AppendQuery
AppendQuery(b) == appendQuery(b, FALSE)

countAppendQuery(b) == appendQuery(b, TRUE)

-----------------------------------------------------------------------------
(* The arguments the configuration calls are explored with.                *)

ModelKinds == {"plain", "hooked"}    \* "hooked" defines Before/AfterSelect
WhereGroupFns ==
    {<<>>,
     <<CallWhere("g1"), CallWhereOr("g2")>>,
     <<CallWhere("g1"), CallWhereGroup(" AND ", <<CallWhereOr("n1")>>)>>}
OrderArgs == {"o", ""}
LimitArgs == {GoInt(0, -1), GoInt(0, 0), GoInt(0, 2), GoInt(1, 1)}
OffsetArgs == {GoInt(0, 3)}
JoinArgs == {"JOIN a", "JOIN b"}
RelationArgs ==
    {<<"Author", FALSE>>, <<"Author", TRUE>>, <<"Author.Profile", FALSE>>,
     <<"Comments", FALSE>>, <<"Comments.User", FALSE>>, <<"Missing", FALSE>>}

\* Queries passed to Union and its five siblings.
OtherPlain == Table(NewSelectQuery, "u")
OtherLimited == Limit(Order(Table(NewSelectQuery, "u"), "k"), GoInt(0, 1))
OtherFailed == JoinOn(Table(NewSelectQuery, "u"), "x")

\* The locals of an executing method before it starts.
NoLocals ==
    [ dest     |-> FALSE,     \* Scan / ScanAndCount was given a destination
      sql      |-> [main |-> "", scan |-> "", count |-> ""],   \* query string
      err      |-> [main |-> ErrNil, scan |-> ErrNil, count |-> ErrNil],
      n        |-> 0,         \* res.n of the primary query
      firstErr |-> ErrNil,    \* ScanAndCount's firstErr
      order    |-> <<>>,      \* goroutines that took mu with an error, in order
      ret      |-> ErrNil ]   \* the error the method returned

Init ==
    /\ q = NewSelectQuery
    /\ calls = 0
    /\ lastCall = "NewSelectQuery"
    /\ op = "none"
    /\ pc = [main |-> "idle", scan |-> "idle", count |-> "idle"]
    /\ loc = NoLocals
    /\ log = <<>>

\* One configuration call on q, returning the same builder.
Call(name, b) ==
    /\ op = "none"
    /\ calls < MaxCalls
    /\ q' = b
    /\ calls' = calls + 1
    /\ lastCall' = name
    /\ UNCHANGED <<op, pc, loc, log>>

Configure ==
    \/ \E k \in ModelKinds : Call("Model", Model(q, k))
    \/ Call("With", With(q, "w"))
    \/ Call("Distinct", Distinct(q))
    \/ Call("DistinctOn", DistinctOn(q, "d"))
    \/ Call("Table", Table(q, "t"))
    \/ Call("Column", Column(q, "c"))
    \/ Call("Where", Where(q, "w1"))
    \/ Call("WhereOr", WhereOr(q, "w2"))
    \/ \E fn \in WhereGroupFns : Call("WhereGroup", WhereGroup(q, " OR ", fn))
    \/ Call("Group", Group(q, "g"))
    \/ Call("Having", Having(q, "h"))
    \/ \E o \in OrderArgs : Call("Order", Order(q, o))
    \/ \E n \in LimitArgs : Call("Limit", Limit(q, n))
    \/ \E n \in OffsetArgs : Call("Offset", Offset(q, n))
    \/ Call("For", For(q, "UPDATE"))
    \/ Call("Union", addUnion(q, " UNION ", Other(OtherPlain)))
    \/ Call("UnionAll", addUnion(q, " UNION ALL ", Other(OtherLimited)))
    \/ Call("Intersect", addUnion(q, " INTERSECT ", Other(OtherFailed)))
    \/ Call("IntersectAll", addUnion(q, " INTERSECT ALL ", Other(OtherPlain)))
    \/ Call("Except", addUnion(q, " EXCEPT ", Self))
    \/ Call("ExceptAll", addUnion(q, " EXCEPT ALL ", Other(OtherLimited)))
    \/ \E j \in JoinArgs : Call("Join", Join(q, j))
    \/ Call("JoinOn", JoinOn(q, "x"))
    \/ Call("JoinOnOr", JoinOnOr(q, "y"))
    \/ \E r \in RelationArgs : Call("Relation", Relation(q, r[1], r[2]))

Next == Configure

Spec == Init /\ [][Next]_vars

-----------------------------------------------------------------------------
(* Execution: Rows, Exec, Scan, Count and ScanAndCount.                    *)

errBeforeHook == "BeforeSelect failed"
errAfterHook == "AfterSelect failed"
errDriver == "driver: bad connection"
errScanDriver == "driver: scan query failed"
errNoRows == "sql: no rows in result set"
errFollowUp == "driver: relation query failed"
errCountDriver == "driver: count query failed"

\* What the log keeps: thread t ran hook e, or called the driver (e is
\* "driver" for a primary or count statement, "follow-up" for the query of
\* relation j) and the driver returned err.
DriverCall(t, e, j, err) == [t |-> t, e |-> e, j |-> j, err |-> err]

Event(t, e) == DriverCall(t, e, "", ErrNil)

FollowUp(j, err) == DriverCall("scan", "follow-up", j.name, err)

\* The relations execution is explored with.
PrepareRelationArgs ==
    {<<"Author", TRUE>>, <<"Author.Books", FALSE>>, <<"Comments", FALSE>>,
     <<"Comments.User", FALSE>>, <<"Tags", FALSE>>, <<"Missing", FALSE>>}

\* The configuration calls execution is explored after.
PrepareCall(name, b) ==
    /\ op = "none"
    /\ calls < MaxExecCalls
    /\ q' = b
    /\ calls' = calls + 1
    /\ lastCall' = name
    /\ UNCHANGED <<op, pc, loc, log>>

Prepare ==
    \/ \E k \in ModelKinds : PrepareCall("Model", Model(q, k))
    \/ PrepareCall("Table", Table(q, "t"))
    \/ PrepareCall("Group", Group(q, "g"))
    \/ \E n \in {GoInt(0, -1), GoInt(0, 2)} : PrepareCall("Limit", Limit(q, n))
    \/ PrepareCall("JoinOn", JoinOn(q, "x"))
    \/ \E r \in PrepareRelationArgs :
           PrepareCall("Relation", Relation(q, r[1], r[2]))

\* Rows and Exec: render, then hand the query to the driver.
Direct(name) ==
    /\ op = "none"
    /\ op' = name
    /\ pc' = [pc EXCEPT !.main = "returned"]
    /\ LET r == AppendQuery(q)
       IN  IF r.err # ErrNil
           THEN /\ loc' = [loc EXCEPT !.ret = r.err]
                /\ log' = log
           ELSE /\ log' = Append(log, Event("main", "driver"))
                /\ \E e \in {ErrNil, errDriver} :
                       loc' = [loc EXCEPT !.sql.main = Text(r.b), !.ret = e]
    /\ UNCHANGED <<q, calls, lastCall>>

Rows == Direct("Rows")

Exec == Direct("Exec")

\* Scan called by the application.
StartScan ==
    /\ op = "none"
    /\ op' = "Scan"
    /\ pc' = [pc EXCEPT !.main = "wait", !.scan = "getModel"]
    /\ \E dest \in BOOLEAN : loc' = [loc EXCEPT !.dest = dest]
    /\ UNCHANGED <<q, calls, lastCall, log>>

\* Count called by the application.
StartCount ==
    /\ op = "none"
    /\ op' = "Count"
    /\ pc' = [pc EXCEPT !.main = "wait", !.count = "render"]
    /\ UNCHANGED <<q, calls, lastCall, loc, log>>

\* line 753
scanWanted(b) == b.limit >= 0

\* ScanAndCount, lines 748-782: the goroutines are started, Scan's only when
\* the limit is not negative.
StartScanAndCount ==
    /\ op = "none"
    /\ op' = "ScanAndCount"
    /\ pc' = [pc EXCEPT !.main = "wait",
                        !.scan = IF scanWanted(q) THEN "getModel" ELSE "idle",
                        !.count = "render"]
    /\ \E dest \in BOOLEAN : loc' = [loc EXCEPT !.dest = dest]
    /\ UNCHANGED <<q, calls, lastCall, log>>

\* Where a sub-operation goes when it returns err: inside ScanAndCount an
\* error is first recorded under the mutex.
Return(t, err) ==
    /\ pc' = [pc EXCEPT ![t] = IF op = "ScanAndCount" /\ err # ErrNil
                               THEN "record" ELSE "done"]
    /\ loc' = [loc EXCEPT !.err[t] = err]

\* baseQuery.getModel: without a destination the bound model is used.
getModel(b, dest) == IF ~dest /\ b.model = "none" THEN errNilModel ELSE ErrNil

\* lines 664-667
ScanGetModel ==
    /\ pc.scan = "getModel"
    /\ IF getModel(q, loc.dest) # ErrNil
       THEN Return("scan", getModel(q, loc.dest))
       ELSE pc' = [pc EXCEPT !.scan = "beforeHook"] /\ loc' = loc
    /\ UNCHANGED <<q, calls, lastCall, op, log>>

\* q.table.ZeroIface implements BeforeSelectHook / AfterSelectHook
hasHooks(b) == b.model = "hooked"

\* lines 675 and 701: if q.table != nil
tableBound(b) == b.model # "none"

\* lines 675-679 and beforeSelectHook
ScanBeforeHook ==
    /\ pc.scan = "beforeHook"
    /\ IF tableBound(q) /\ hasHooks(q)
       THEN /\ log' = Append(log, Event("scan", "BeforeSelect"))
            /\ \/ pc' = [pc EXCEPT !.scan = "render"] /\ loc' = loc
               \/ Return("scan", errBeforeHook)
       ELSE /\ log' = log
            /\ pc' = [pc EXCEPT !.scan = "render"]
            /\ loc' = loc
    /\ UNCHANGED <<q, calls, lastCall, op>>

\* lines 681-686
ScanRender ==
    /\ pc.scan = "render"
    /\ LET r == AppendQuery(q)
       IN  IF r.err # ErrNil
           THEN Return("scan", r.err)
           ELSE /\ pc' = [pc EXCEPT !.scan = "query"]
                /\ loc' = [loc EXCEPT !.sql.scan = Text(r.b)]
    /\ UNCHANGED <<q, calls, lastCall, op, log>>

\* Mutant of scanError: the driver's error is replaced by one of bun's own.
scanError_wrapped(e) == "bun: " \o e

\* lines 689-691: if err != nil { return err }
scanError(e) == e

\* lines 688-691: the primary query; the driver fails, finds no row for a
\* single-row destination, or returns n rows.
ScanQuery ==
    /\ pc.scan = "query"
    /\ \/ \E e \in {errScanDriver, errNoRows} :
             /\ log' = Append(log, DriverCall("scan", "driver", "", e))
             /\ Return("scan", scanError(e))
       \/ \E n \in {0, 1} :
             /\ log' = Append(log, Event("scan", "driver"))
             /\ pc' = [pc EXCEPT !.scan = "joins"]
             /\ loc' = [loc EXCEPT !.n = n]
    /\ UNCHANGED <<q, calls, lastCall, op>>

\* The joins of the model Scan reads into: the bound model's, or none for a
\* destination given to Scan.
scanModelJoins(b, dest) == IF dest \/ b.model = "none" THEN <<>> ELSE b.rels

\* line 693: if res.n > 0
followUpWanted(n) == n > 0

\* Mutant of followUps: the pass goes on after a failed query.
followUps_all(follow, k) ==
    [i \in 1..Len(follow) |-> FollowUp(follow[i], IF i = k THEN errFollowUp ELSE ErrNil)]

\* selectJoins, lines 341-352: the queries issued when the k-th one fails
\* (k = 0: none fails); the loop returns at the first error.
followUps(follow, k) ==
    [i \in 1..(IF k = 0 THEN Len(follow) ELSE k) |->
        FollowUp(follow[i], IF i = k THEN errFollowUp ELSE ErrNil)]

\* lines 693-699: the follow-up queries, up to the first that fails.
ScanJoins ==
    /\ pc.scan = "joins"
    /\ LET rels == scanModelJoins(q, loc.dest)
           follow == IF followUpWanted(loc.n)
                     THEN selectJoins(rels, GetJoins(rels, "")) ELSE <<>>
       IN  \/ /\ log' = log \o followUps(follow, 0)
              /\ pc' = [pc EXCEPT !.scan = "afterHook"]
              /\ loc' = loc
           \/ \E k \in 1..Len(follow) :
                 /\ log' = log \o followUps(follow, k)
                 /\ Return("scan", errFollowUp)
    /\ UNCHANGED <<q, calls, lastCall, op>>

\* Mutant of afterHookWanted: the hook is run only when rows came back.
afterHookWanted_rows(b, n) == tableBound(b) /\ n > 0

\* line 701
afterHookWanted(b, n) == tableBound(b)

\* lines 701-707 and afterSelectHook
ScanAfterHook ==
    /\ pc.scan = "afterHook"
    /\ IF afterHookWanted(q, loc.n) /\ hasHooks(q)
       THEN /\ log' = Append(log, Event("scan", "AfterSelect"))
            /\ \E e \in {ErrNil, errAfterHook} : Return("scan", e)
       ELSE /\ log' = log
            /\ Return("scan", ErrNil)
    /\ UNCHANGED <<q, calls, lastCall, op>>

\* lines 729-734
CountRender ==
    /\ pc.count = "render"
    /\ LET r == countAppendQuery(q)
       IN  IF r.err # ErrNil
           THEN Return("count", r.err)
           ELSE /\ pc' = [pc EXCEPT !.count = "query"]
                /\ loc' = [loc EXCEPT !.sql.count = Text(r.b)]
    /\ UNCHANGED <<q, calls, lastCall, op, log>>

\* lines 736-744
CountQuery ==
    /\ pc.count = "query"
    /\ log' = Append(log, Event("count", "driver"))
    /\ \E e \in {ErrNil, errCountDriver} : Return("count", e)
    /\ UNCHANGED <<q, calls, lastCall, op>>

\* Mutant of recordErr: firstErr is assigned without the nil check.
recordErr_overwrite(firstErr, err) == err

\* lines 760-762 and 776-778
recordErr(firstErr, err) == IF firstErr = ErrNil THEN err ELSE firstErr

\* lines 759-763 and 775-779: mu.Lock() ... mu.Unlock()
Record(t) ==
    /\ pc[t] = "record"
    /\ pc' = [pc EXCEPT ![t] = "done"]
    /\ loc' = [loc EXCEPT !.firstErr = recordErr(@, loc.err[t]),
                          !.order = Append(@, t)]
    /\ UNCHANGED <<q, calls, lastCall, op, log>>

ScanRecord == Record("scan")

CountRecord == Record("count")

\* The method returns: Scan and Count their own error, ScanAndCount after
\* wg.Wait() the first recorded one.
Finish ==
    /\ pc.main = "wait"
    /\ pc.scan \in {"idle", "done"}
    /\ pc.count \in {"idle", "done"}
    /\ pc' = [pc EXCEPT !.main = "returned"]
    /\ loc' = [loc EXCEPT !.ret = CASE op = "Scan" -> loc.err.scan
                                    [] op = "Count" -> loc.err.count
                                    [] OTHER -> loc.firstErr]
    /\ UNCHANGED <<q, calls, lastCall, op, log>>

\* What a render reads and writes of the state the goroutines share.
\* join.applyQuery(q), line 571, runs the function given to Relation on q
\* (here one that calls q.Column) and leaves the columns it added in
\* join.columns, which line 573 reads.
applyQueryWrites(b) ==
    IF \E i \in 1..Len(forEachHasOneJoin(b)) : forEachHasOneJoin(b)[i].apply
    THEN {"q.columns", "join.columns"}
    ELSE {}

\* appendColumns is reached unless the column list is count(*) (line 401).
renderWrites(b, count) ==
    IF count /\ ~cteCount(b, count) THEN {} ELSE applyQueryWrites(b)

renderReads(b, count) ==
    {"q.err", "q.group", "q.distinctOn", "q.union", "q.with", "q.table",
     "q.tables", "q.joins", "q.where", "q.having"}
    \cup (IF count /\ ~cteCount(b, count) THEN {} ELSE {"q.columns", "join.columns"})
    \cup (IF count THEN {} ELSE {"q.order", "q.limit", "q.offset", "q.selFor"})

\* Both goroutines are about to render, unsynchronized, and one writes what
\* the other reads or writes.
DataRace ==
    /\ op = "ScanAndCount"
    /\ pc.scan = "render" /\ pc.count = "render"
    /\ \/ renderWrites(q, FALSE) \cap (renderReads(q, TRUE) \cup renderWrites(q, TRUE)) # {}
       \/ renderWrites(q, TRUE) \cap renderReads(q, FALSE) # {}

ExecNext ==
    \/ Prepare
    \/ Rows
    \/ Exec
    \/ StartScan
    \/ StartCount
    \/ StartScanAndCount
    \/ ScanGetModel
    \/ ScanBeforeHook
    \/ ScanRender
    \/ ScanQuery
    \/ ScanJoins
    \/ ScanAfterHook
    \/ ScanRecord
    \/ CountRender
    \/ CountQuery
    \/ CountRecord
    \/ Finish

ExecSpec == Init /\ [][ExecNext]_vars

-----------------------------------------------------------------------------
(* Properties of the builder and of the renderer.                          *)

\* The clause order of the specification, with the brackets the renderer
\* puts around a counted or combined statement.
ClauseOrder ==
    <<"COUNT(", "(", "WITH", "SELECT", "DISTINCT", "COLUMNS", "FROM", "HASONE",
      "JOIN", "WHERE", "GROUP BY", "HAVING", "ORDER BY", "LIMIT", "OFFSET",
      "FOR", ")", "SETOP", ")COUNT">>

ClauseRank(c) == CHOOSE i \in 1..Len(ClauseOrder) : ClauseOrder[i] = c

\* Clauses that hold one token per join or per member.
Repeated == {"HASONE", "JOIN", "SETOP"}

InClauseOrder(toks) ==
    \A i \in 1..Len(toks) : \A j \in 1..Len(toks) :
        i < j =>
            \/ ClauseRank(toks[i].c) < ClauseRank(toks[j].c)
            \/ toks[i].c = toks[j].c /\ toks[i].c \in Repeated

OfClause(toks, cs) == SelectSeq(toks, LAMBDA t : t.c \in cs)

\* The to-one joins reachable from the model through to-one joins only.
RECURSIVE ToOneChain(_, _)
ToOneChain(rels, j) ==
    /\ IsToOne(j)
    /\ \/ j.parent = ""
       \/ \E i \in 1..Len(rels) : rels[i].name = j.parent /\ ToOneChain(rels, rels[i])

IndexOf(rels, name) == CHOOSE i \in 1..Len(rels) : rels[i].name = name

\* js lists every join of the to-one chains once, parents before children
\* with nothing but the parent's descendants in between, siblings in
\* declaration order.
IsPreOrder(js, rels) ==
    /\ \A i \in 1..Len(rels) :
           ToOneChain(rels, rels[i]) <=> \E k \in 1..Len(js) : js[k] = rels[i]
    /\ \A k \in 1..Len(js) : \A l \in 1..Len(js) : js[k] = js[l] => k = l
    /\ \A k \in 1..Len(js) :
           js[k].parent # "" =>
               \E p \in 1..(k - 1) :
                   /\ js[p].name = js[k].parent
                   /\ \A m \in (p + 1)..(k - 1) : js[m].parent = js[p].name
    /\ \A k \in 1..Len(js) : \A l \in 1..Len(js) :
           (k < l /\ js[k].parent = js[l].parent) =>
               IndexOf(rels, js[k].name) < IndexOf(rels, js[l].name)

\* C1: whatever configuration calls were made, a successful row-fetching
\* render emits its clauses in the fixed order WITH, SELECT, DISTINCT,
\* columns, FROM, relation joins, explicit joins, WHERE, GROUP BY, HAVING,
\* ORDER BY, LIMIT, OFFSET, FOR, set operations, each at most once; the
\* relation joins are the to-one joins in pre-order and declaration order,
\* and the explicit joins are those of q.joins in the order they were added.
C1_ClauseOrder ==
    LET r == AppendQuery(q)
    IN  r.err = ErrNil =>
          /\ InClauseOrder(r.b)
          /\ \E js \in [1..Len(OfClause(r.b, {"HASONE"})) -> {q.rels[i] : i \in 1..Len(q.rels)}] :
                 /\ IsPreOrder(js, q.rels)
                 /\ OfClause(r.b, {"HASONE"}) = [k \in 1..Len(js) |-> appendHasOneJoin(js[k])]
          /\ OfClause(r.b, {"JOIN"}) =
                 [i \in 1..Len(q.joins) |-> joinQueryAppendQuery(q.joins[i])]
          /\ Len(OfClause(r.b, {"SETOP"})) = Len(q.union)

C1_Witness ==
    /\ AppendQuery(q).err = ErrNil
    /\ Len(q.order) > 0 /\ q.limit # 0 /\ Len(q.joins) > 0

\* C3 (as claimed): once an error is recorded on the builder, no later
\* configuration call replaces it with another error.
C3_FirstErrorWins == [][q.err # ErrNil => q'.err = q.err]_vars

\* C4 (as claimed): once the builder holds an error, a configuration call
\* leaves the accumulated clause state unchanged.
C4_StateFrozenAfterError == [][q.err # ErrNil => Clauses(q') = Clauses(q)]_vars

\* C4 (amended): once the builder holds an error, no configuration call
\* clears the error slot, and both renders keep failing without any SQL;
\* the clause state is still accumulated.
C4_ErrorNeverCleared ==
    [][q.err # ErrNil =>
          /\ q'.err # ErrNil
          /\ AppendQuery(q') = Failed(q'.err)
          /\ countAppendQuery(q') = Failed(q'.err)]_vars

C4_Witness == q.err = errNoJoins /\ lastCall = "Where" /\ Len(q.where) > 0

\* C5: JoinOn / JoinOnOr on a builder without joins records the no-joins
\* error and changes nothing else, and from then on every render fails with
\* that error whatever is called next; with at least one join the condition
\* is appended to the last join only and the error slot is left alone.
C5_JoinOn ==
    [][/\ (q.err = errNoJoins => AppendQuery(q').err = errNoJoins)
       /\ (lastCall' \in {"JoinOn", "JoinOnOr"} /\ calls' = calls + 1) =>
             IF Len(q.joins) = 0
             THEN /\ q'.err = errNoJoins
                  /\ Clauses(q') = Clauses(q)
                  /\ AppendQuery(q').err = errNoJoins
             ELSE LET n == Len(q.joins)
                  IN  /\ q'.err = q.err
                      /\ Len(q'.joins) = n
                      /\ \A i \in 1..(n - 1) : q'.joins[i] = q.joins[i]
                      /\ q'.joins[n].join = q.joins[n].join
                      /\ Len(q'.joins[n].on) = Len(q.joins[n].on) + 1
                      /\ SubSeq(q'.joins[n].on, 1, Len(q.joins[n].on)) = q.joins[n].on
                      /\ [q' EXCEPT !.joins = q.joins] = q]_vars

C5_Witness ==
    /\ Len(q.joins) = 2
    /\ Len(q.joins[1].on) = 0
    /\ Len(q.joins[2].on) = 1
    /\ lastCall \in {"JoinOn", "JoinOnOr"}

RowOnly == {"ORDER BY", "LIMIT", "OFFSET", "FOR"}

\* C6: a successful counting render selects exactly count(*) when neither
\* GROUP BY nor DISTINCT (bare or with expressions) was configured; when one
\* was, it renders the statement with its normal column list and wraps all
\* of it, set operations included, in the _count_wrapper CTE that the outer
\* count(*) selects from.
C6_CountRender ==
    LET c == countAppendQuery(q)
        r == AppendQuery(q)
    IN  c.err = ErrNil =>
          IF Len(q.group) = 0 /\ q.distinctOn.isNil
          THEN /\ OfClause(c.b, {"COLUMNS"}) = <<Tok("COLUMNS", "count(*)")>>
               /\ OfClause(c.b, {"COUNT(", ")COUNT"}) = <<>>
          ELSE /\ r.err = ErrNil
               /\ c.b = <<Tok("COUNT(", "WITH _count_wrapper AS (")>>
                         \o SelectSeq(r.b, LAMBDA t : t.c \notin RowOnly)
                         \o <<Tok(")COUNT", ") SELECT count(*) FROM _count_wrapper")>>
               /\ OfClause(c.b, {"COLUMNS"}) = <<Tok("COLUMNS", appendColumns(q))>>

C6_Witness ==
    /\ countAppendQuery(q).err = ErrNil
    /\ ~q.distinctOn.isNil /\ Len(q.distinctOn.items) = 0
    /\ Len(q.group) = 0
    /\ Len(q.union) > 0

Shared == {"FROM", "HASONE", "JOIN", "WHERE", "GROUP BY", "HAVING"}

-----------------------------------------------------------------------------
(* Properties of the executing methods.                                    *)

Returned(ops) == pc.main = "returned" /\ op \in ops

NoSQL ==
    /\ loc.sql = NoLocals.sql
    /\ \A i \in 1..Len(log) : log[i].e \notin {"driver", "follow-up"}

\* C2 (as claimed): with a stored error on the builder, Rows, Exec, Scan and
\* Count return that stored error, produce no SQL and do not call the driver.
C2_ReturnsStoredError ==
    (Returned({"Rows", "Exec", "Scan", "Count"}) /\ q.err # ErrNil) =>
        loc.ret = q.err /\ NoSQL

\* C2 (amended): with a stored error on the builder, Rows, Exec, Scan and
\* Count fail, produce no SQL and do not call the driver; Rows, Exec and
\* Count return the stored error, and so does Scan unless it has no model to
\* scan into (it returns the nil-model error) or the before-select hook
\* fails (it returns the hook's error), both of which come before the render.
C2_StoredErrorPreempts ==
    (Returned({"Rows", "Exec", "Scan", "Count"}) /\ q.err # ErrNil) =>
        /\ loc.ret # ErrNil
        /\ NoSQL
        /\ op \in {"Rows", "Exec", "Count"} => loc.ret = q.err
        /\ op = "Scan" =>
              IF ~loc.dest /\ q.model = "none"
              THEN loc.ret = errNilModel
              ELSE \/ loc.ret = q.err
                   \/ /\ loc.ret = errBeforeHook
                      /\ q.model = "hooked"
                      /\ log = <<Event("scan", "BeforeSelect")>>

C2_Witness ==
    /\ Returned({"Scan"}) /\ q.err = errNoJoins
    /\ loc.ret = errNoJoins
    /\ q.model = "hooked"

\* C8 (as claimed): ScanAndCount returns after both the row-fetch and the
\* count were started and have finished.
C8_BothSubOperationsRun ==
    Returned({"ScanAndCount"}) => pc.scan = "done" /\ pc.count = "done"

\* C8 (amended): ScanAndCount starts the count, and the row-fetch unless the
\* limit is negative, and returns only after every sub-operation it started
\* has finished; it returns nil iff none of them failed, and otherwise the
\* error of the failing sub-operation that recorded its error first, which
\* a later failure never overwrites.
C8_ScanAndCountJoin ==
    op = "ScanAndCount" =>
        /\ loc.firstErr = IF loc.order = <<>> THEN ErrNil ELSE loc.err[loc.order[1]]
        /\ pc.scan = "idle" <=> q.limit < 0
        /\ pc.main = "returned" =>
              /\ pc.count = "done"
              /\ pc.scan = "done" <=> q.limit >= 0
              /\ loc.ret = loc.firstErr
              /\ loc.ret = ErrNil <=> (loc.err.scan = ErrNil /\ loc.err.count = ErrNil)
              /\ loc.ret # ErrNil => loc.ret \in {loc.err.scan, loc.err.count}

C8_Witness ==
    /\ Returned({"ScanAndCount"})
    /\ loc.order = <<"count", "scan">>
    /\ loc.err.scan = errScanDriver /\ loc.err.count = errCountDriver
    /\ loc.ret = errCountDriver

\* C9 (as claimed, first half): when ScanAndCount has started its
\* goroutines, the query has already been rendered.
C9_RenderedBeforeLaunch ==
    op = "ScanAndCount" =>
        pc.scan \notin {"getModel", "beforeHook", "render"} /\ pc.count # "render"

\* C9 (as claimed): in no interleaving of ScanAndCount's two sub-operations
\* does one write a builder or join field that the other reads or writes.
C9_SharedStateReadOnly == ~DataRace

HookEvents == {"BeforeSelect", "AfterSelect"}

EventsOf(t) ==
    LET mine == SelectSeq(log, LAMBDA e : e.t = t)
    IN  [i \in 1..Len(mine) |-> mine[i].e]

Occurrences(evs, e) == Len(SelectSeq(evs, LAMBDA x : x = e))

\* C10 (as claimed): with hooks defined on the bound model, a finished Scan,
\* Count or ScanAndCount has run the before hook exactly once and before any
\* SQL; a failed before hook means no SQL reached the driver; on success
\* the after hook ran exactly once, after the SQL.
C10_HooksOncePerOperation ==
    (Returned({"Scan", "Count", "ScanAndCount"}) /\ q.model = "hooked" /\ q.err = ErrNil) =>
        LET evs == [i \in 1..Len(log) |-> log[i].e]
        IN  /\ Occurrences(evs, "BeforeSelect") = 1
            /\ evs[1] = "BeforeSelect"
            /\ loc.err.scan = errBeforeHook => Occurrences(evs, "driver") = 0
            /\ loc.ret = ErrNil =>
                  Occurrences(evs, "AfterSelect") = 1 /\ evs[Len(evs)] = "AfterSelect"

\* C10 (amended): the select hooks belong to Scan alone.  With hooks defined
\* on the bound model, Scan runs the before hook exactly once, before it
\* renders or sends anything, and a before-hook error is what Scan returns,
\* with no SQL of Scan sent; Scan runs the after hook exactly once, last,
\* and only after its primary query and follow-up queries succeeded, and an
\* after-hook error is what Scan returns.  Count runs neither hook, so
\* ScanAndCount runs them only through its Scan (not at all when the limit
\* is negative) and its count statement does not wait for the before hook.
C10_HooksAroundScan ==
    LET evs == EventsOf("scan")
        n   == Len(evs)
    IN  /\ \A i \in 1..Len(log) : log[i].e \in HookEvents => log[i].t = "scan"
        /\ q.model # "hooked" => \A i \in 1..n : evs[i] \notin HookEvents
        /\ q.model = "hooked" =>
              /\ Occurrences(evs, "BeforeSelect") <= 1
              /\ Occurrences(evs, "AfterSelect") <= 1
              /\ n > 0 => evs[1] = "BeforeSelect"
              /\ pc.scan \in {"render", "query", "joins", "afterHook"} =>
                    Occurrences(evs, "BeforeSelect") = 1
              /\ loc.err.scan = errBeforeHook => evs = <<"BeforeSelect">> /\ loc.sql.scan = ""
              /\ \A i \in 1..n : evs[i] = "AfterSelect" =>
                    /\ i = n /\ i > 2
                    /\ evs[2] = "driver"
                    /\ loc.err.scan \in {ErrNil, errAfterHook}
              /\ (pc.scan \in {"record", "done"} /\ loc.err.scan \in {ErrNil, errAfterHook}) =>
                    n > 2 /\ evs[n] = "AfterSelect"
              /\ Returned({"Scan"}) => loc.ret = loc.err.scan

C10_Witness ==
    /\ Returned({"ScanAndCount"}) /\ q.model = "hooked"
    /\ loc.ret = ErrNil
    /\ Occurrences(EventsOf("scan"), "AfterSelect") = 1
    /\ Occurrences(EventsOf("scan"), "follow-up") = 1
    /\ Occurrences(EventsOf("count"), "driver") = 1

\* What the row-fetch logged, and the follow-up queries among it.
ScanLog == SelectSeq(log, LAMBDA e : e.t = "scan")

FollowUpLog == SelectSeq(log, LAMBDA e : e.e = "follow-up")

\* The follow-up queries Scan would issue for the bound model's joins.
FollowUpJoins == selectJoins(q.rels, GetJoins(q.rels, ""))

\* C11: Scan issues a follow-up query only after its primary query
\* succeeded and returned at least one row; after zero rows or a failed
\* primary query it issues none.  A failing follow-up query is the last
\* thing the row-fetch does, and its error is what Scan returns.
C11_FollowUpQueries ==
    LET evs == ScanLog
        fus == FollowUpLog
    IN  /\ \A i \in 1..Len(log) : log[i].e = "follow-up" => log[i].t = "scan"
        /\ \A i \in 1..Len(evs) :
               evs[i].e = "follow-up" =>
                   /\ \E p \in 1..(i - 1) : evs[p].e = "driver" /\ evs[p].err = ErrNil
                   /\ loc.n > 0
        /\ (loc.n = 0 \/ loc.err.scan \in {errScanDriver, errNoRows}) => fus = <<>>
        /\ \A i \in 1..Len(fus) :
               fus[i].err # ErrNil =>
                   /\ i = Len(fus)
                   /\ evs[Len(evs)] = fus[i]
                   /\ loc.err.scan = fus[i].err
                   /\ Returned({"Scan"}) => loc.ret = fus[i].err
        /\ loc.err.scan = errFollowUp =>
               Len(fus) > 0 /\ fus[Len(fus)].err = errFollowUp

C11_Witness ==
    /\ Returned({"Scan"}) /\ loc.ret = errFollowUp
    /\ Len(FollowUpJoins) = 2
    /\ Len(FollowUpLog) = 1
    /\ q.model = "hooked"

\* C12: an error the driver returns for Scan's primary query, the no-rows
\* condition included, is the error the row-fetch ends with and the value
\* Scan returns, unchanged; the row-fetch does nothing after it: no
\* follow-up query, no after-select hook.
C12_DriverErrorPassedThrough ==
    \A i \in 1..Len(log) :
        (log[i].t = "scan" /\ log[i].e = "driver" /\ log[i].err # ErrNil) =>
            /\ loc.err.scan = log[i].err
            /\ \A k \in (i + 1)..Len(log) : log[k].t # "scan"
            /\ Returned({"Scan"}) => loc.ret = log[i].err

C12_Witness ==
    /\ Returned({"Scan"}) /\ loc.ret = errNoRows
    /\ q.model = "hooked" /\ ~loc.dest
    /\ Len(FollowUpJoins) > 0
    /\ ScanLog = <<Event("scan", "BeforeSelect"), DriverCall("scan", "driver", "", errNoRows)>>

\* A to-many join hanging off the model or off a chain of to-one joins.
ToManyReachable(rels, j) ==
    /\ ~IsToOne(j)
    /\ \/ j.parent = ""
       \/ \E i \in 1..Len(rels) : rels[i].name = j.parent /\ ToOneChain(rels, rels[i])

\* The number of follow-up queries issued for join j.
Issued(j) == Len(SelectSeq(FollowUpLog, LAMBDA e : e.j = j.name))

\* The relation joins of the statement are the to-one chains of the model,
\* each join once, in pre-order and declaration order.
ToOneJoinsRendered ==
    LET r == AppendQuery(q)
        hasOne == OfClause(r.b, {"HASONE"})
    IN  r.err = ErrNil =>
          /\ pc.scan \in {"query", "joins", "afterHook"} => loc.sql.scan = Text(r.b)
          /\ \E js \in [1..Len(hasOne) -> {q.rels[i] : i \in 1..Len(q.rels)}] :
                 /\ IsPreOrder(js, q.rels)
                 /\ hasOne = [k \in 1..Len(js) |-> appendHasOneJoin(js[k])]

\* The row-fetch is through with its follow-up pass and no query failed.
FollowUpPassDone ==
    \/ pc.scan = "afterHook"
    \/ pc.scan \in {"record", "done"} /\ loc.err.scan \in {ErrNil, errAfterHook}

\* C16 (as claimed): a Scan into the bound model that succeeded rendered
\* every to-one join of the to-one chains once, in pre-order and declaration
\* order, and issued exactly one follow-up query for every to-many join
\* hanging off the model or a to-one chain, and none for any other join.
C16_EachJoinOncePerScan ==
    (Returned({"Scan"}) /\ loc.ret = ErrNil /\ ~loc.dest) =>
        /\ ToOneJoinsRendered
        /\ \A i \in 1..Len(q.rels) :
               Issued(q.rels[i]) = IF ToManyReachable(q.rels, q.rels[i]) THEN 1 ELSE 0

\* C16 (amended): the statement Scan renders joins every to-one join of the
\* to-one chains once, in pre-order and declaration order.  The follow-up
\* pass issues queries only for to-many joins hanging off the model or a
\* to-one chain, in the order of the tree and never twice; when it ran to
\* its end it has issued exactly one for each of them if the primary query
\* returned a row into the bound model, and none if it returned no row.  A
\* join under a to-many join is neither rendered nor issued.
C16_JoinTreeHandling ==
    /\ ToOneJoinsRendered
    /\ \A i \in 1..Len(q.rels) :
           LET j == q.rels[i]
           IN  /\ Issued(j) <= 1
               /\ Issued(j) = 1 => ToManyReachable(q.rels, j) /\ ~loc.dest /\ loc.n > 0
               /\ (FollowUpPassDone /\ ~loc.dest) =>
                      Issued(j) = IF ToManyReachable(q.rels, j) /\ loc.n > 0 THEN 1 ELSE 0
    /\ \A k \in 1..Len(FollowUpLog) :
           /\ k <= Len(FollowUpJoins)
           /\ FollowUpLog[k].j = FollowUpJoins[k].name

C16_Witness ==
    /\ Returned({"Scan"}) /\ loc.ret = ErrNil /\ ~loc.dest /\ loc.n = 1
    /\ Len(q.rels) = 4
    /\ [k \in 1..Len(FollowUpLog) |-> FollowUpLog[k].j] = <<"Author.Books", "Comments">>
    /\ OfClause(AppendQuery(q).b, {"HASONE"}) = <<appendHasOneJoin(q.rels[1])>>

-----------------------------------------------------------------------------
(* Properties of Relation, WhereGroup, the set operations, Limit / Offset  *)
(* and the termination of the render.                                      *)

\* C13 (as claimed): Relation on a builder without a bound model puts the
\* nil-model error in the error slot, Relation with a name the metadata does
\* not know puts the unknown-relation error there; no join is registered,
\* nothing else changes, and the render of the builder fails with it.
C13_RelationRecordsError ==
    \A r \in RelationArgs :
        LET b == Relation(q, r[1], r[2])
            expected == IF q.model = "none" THEN errNilModel ELSE errNoRelation
        IN  (q.model = "none" \/ r[1] \notin RelationNames) =>
                /\ b.err = expected
                /\ Clauses(b) = Clauses(q)
                /\ AppendQuery(b) = Failed(expected)

\* C13 (amended): Relation on a builder without a bound model, or with a
\* name the metadata does not know, leaves an error in the error slot: the
\* nil-model error, respectively the unknown-relation error, when the slot
\* was empty, and the error already stored otherwise.  No join is
\* registered, nothing else changes, and the render of the builder fails
\* with the stored error and without SQL.
C13_RelationKeepsFirstError ==
    \A r \in RelationArgs :
        LET b == Relation(q, r[1], r[2])
            expected == IF q.model = "none" THEN errNilModel ELSE errNoRelation
        IN  (q.model = "none" \/ r[1] \notin RelationNames) =>
                /\ b.err = IF q.err = ErrNil THEN expected ELSE q.err
                /\ Clauses(b) = Clauses(q)
                /\ AppendQuery(b) = Failed(b.err)
                /\ countAppendQuery(b) = Failed(b.err)

C13_Witness ==
    /\ lastCall = "Relation"
    /\ q.err = errNoRelation
    /\ q.model # "none"
    /\ Len(q.rels) = 1
    /\ AppendQuery(q) = Failed(errNoRelation)

\* The where entries a callback's calls add to an empty list.
RECURSIVE CallbackEntries(_)
CallbackEntries(fn) ==
    IF Len(fn) = 0 THEN <<>>
    ELSE LET c == Head(fn)
             e == CASE c.call = "Where" -> <<Cond(c.query, " AND ")>>
                    [] c.call = "WhereOr" -> <<Cond(c.query, " OR ")>>
                    [] c.call = "WhereGroup" ->
                          IF Len(CallbackEntries(c.fn)) = 0 THEN <<>>
                          ELSE <<[sep |-> c.sep, query |-> "", group |-> CallbackEntries(c.fn)]>>
         IN  e \o CallbackEntries(Tail(fn))

\* While fn runs on the builder WhereGroup hands it, the where list holds
\* the entries fn has added so far and nothing else.
IsolatedWhile(b, fn) ==
    \A k \in 0..Len(fn) :
        runCallback(callbackStart(b), SubSeq(fn, 1, k)).where = CallbackEntries(SubSeq(fn, 1, k))

C15_SetOperations ==
    (/\ Len(q.union) > 0
     /\ q.err = ErrNil
     /\ \A i \in 1..Len(q.union) : ~q.union[i].query.self) =>
        LET r == AppendQuery(q)
            members == [i \in 1..Len(q.union) |-> AppendQuery(q.union[i].query.q)]
            failing == {i \in 1..Len(q.union) : members[i].err # ErrNil}
        IN  IF failing = {}
            THEN /\ r = Rendered(<<Tok("(", "(")>>
                                 \o appendStatement(q, FALSE)
                                 \o <<Tok(")", ")")>>
                                 \o [i \in 1..Len(q.union) |->
                                        Tok("SETOP", q.union[i].expr
                                                     \o "(" \o Text(members[i].b) \o ")")])
                 /\ OfClause(appendStatement(q, FALSE), RowOnly)
                        = appendOrder(q) \o appendLimit(q) \o appendOffset(q) \o appendFor(q)
            ELSE r = Failed(members[CHOOSE i \in failing : \A k \in failing : i <= k].err)

C15_Witness ==
    /\ Len(q.union) = 2
    /\ q.limit = 2
    /\ Text(AppendQuery(q).b)
          = "(SELECT * LIMIT 2) UNION (SELECT * FROM u) UNION ALL (SELECT * FROM u ORDER BY k LIMIT 1)"

\* The Go int n is zero.
IsZero(n) == n.hi = 0 /\ n.lo = 0

\* The text of the LIMIT (OFFSET) clause carrying exactly n; n has such a
\* text here only when it is its own low word.
ExactClause(c, n) == <<Tok(c, " " \o c \o " " \o AppendInt(n.lo))>>

\* C17 (as claimed): after Limit(n), respectively Offset(n), with any
\* integer n and whatever was set before, a successful row-fetching render
\* has the clause LIMIT n, respectively OFFSET n, with exactly the value n
\* when n is not zero, and no such clause when n is zero.
C17_LimitOffsetExact ==
    [][/\ \A n \in LimitArgs :
             (lastCall' = "Limit" /\ calls' = calls + 1 /\ q' = Limit(q, n)
                /\ AppendQuery(q').err = ErrNil) =>
                 IF IsZero(n)
                 THEN OfClause(AppendQuery(q').b, {"LIMIT"}) = <<>>
                 ELSE /\ n.hi = 0
                      /\ OfClause(AppendQuery(q').b, {"LIMIT"}) = ExactClause("LIMIT", n)
       /\ \A n \in OffsetArgs :
             (lastCall' = "Offset" /\ calls' = calls + 1 /\ q' = Offset(q, n)
                /\ AppendQuery(q').err = ErrNil) =>
                 IF IsZero(n)
                 THEN OfClause(AppendQuery(q').b, {"OFFSET"}) = <<>>
                 ELSE /\ n.hi = 0
                      /\ OfClause(AppendQuery(q').b, {"OFFSET"}) = ExactClause("OFFSET", n)]_vars

\* C18 (as claimed): the render of every reachable builder comes to an end;
\* it does not nest calls of appendQuery without bound.
C18_RenderTerminates ==
    /\ AppendQuery(q).err # errOverflow
    /\ countAppendQuery(q).err # errOverflow

=============================================================================
